---- MODULE Spec2Model ----
(***************************************************************************)
(* ComfyUI Parallel Batch Simulator (src/src/App.tsx): the pairing engine  *)
(* buildJobs, the promise pool runWithConcurrency, the simulated job       *)
(* runner and the Build / Submit / Collect handlers of the App component.  *)
(*                                                                         *)
(* One step of the model is one browser task: a click handler or a timer   *)
(* callback together with the whole chain of promise reactions             *)
(* (microtasks) it triggers.  React state is the state seen by the next    *)
(* task; a handler reads the state captured by the render that created it. *)
(*                                                                         *)
(* The form fields (mode, prompts, reference lists, the concurrency slider *)
(* and the Auto-Collect checkbox) can be edited freely between clicks and  *)
(* are only read by Build and Submit: they are inputs of those handlers.   *)
(***************************************************************************)
EXTENDS Integers, Sequences, FiniteSets, TLC

\* ------------------------------------------------------------ bounds
\* Longest item list handed to the pool in PoolSpec.
MaxItems == 3
\* Largest concurrency cap tried (the slider of the UI goes up to 8).
MaxK == 2
\* Number of prompts the Build inputs of the lifecycle model range over.
MaxPrompts == 2
\* Number of job_ids drawn by the Submit clicks of one behaviour.
MaxIds == 4
\* Longest shared reference list passed to a direct buildJobs call.
MaxRefs == 2
\* Longest per-prompt group list passed to a direct buildJobs call.
MaxGroups == 2

\* ------------------------------------------------------------ values
\* An optional field of a TypeScript object: absent, or holding one value.
None == {}
Some(v) == {v}

\* Date.now(): an abstract instant (no handler compares timestamps).
DateNow == "now"

\* A faulty Min: one short when the first argument is the smaller.
MinOneShort(a, b) == IF a < b THEN a - 1 ELSE b

Min(a, b) == IF a < b THEN a ELSE b

Range(s) == {s[n] : n \in 1..Len(s)}

\* A JavaScript value passed where an array is expected.
Arr(s) == [isArray |-> TRUE, elems |-> s]
NotArr == [isArray |-> FALSE, elems |-> <<>>]
\* A value that is not an array but has a length and indexed entries (a string).
ArrayLike(s) == [isArray |-> FALSE, elems |-> s]

ONE_TO_MANY == "one-to-many"
ZIP == "zip"
CARTESIAN == "cartesian"
PairingMode == {ONE_TO_MANY, ZIP, CARTESIAN}
\* A mode value outside PairingMode (it reaches buildJobs only through a cast).
OTHER_MODE == "other"

\* ------------------------------------------------------------ buildJobs
toArraySafe(x, fallback) == IF x.isArray THEN x.elems ELSE fallback

\* A faulty filterBoolean: nothing is removed.
filterBooleanKeepsAll(s) == s

\* filter(Boolean) on strings: the empty string is falsy.
filterBoolean(s) == SelectSeq(s, LAMBDA e : e # "")

Job(index, prompt, refs, payload) ==
    [index |-> index, prompt |-> prompt, refs |-> refs, payload |-> payload]

\* A faulty cartesianGroups: the loop over groups is the outer one.
RECURSIVE cartesianGroupsGroupOuter(_, _, _, _, _, _)
cartesianGroupsGroupOuter(prompts, groups, payload, i, g, jobs) ==
    IF g >= Len(groups) THEN jobs
    ELSE IF i >= Len(prompts)
         THEN cartesianGroupsGroupOuter(prompts, groups, payload, 0, g + 1, jobs)
         ELSE cartesianGroupsGroupOuter(prompts, groups, payload, i + 1, g,
                  Append(jobs, Job(Len(jobs), prompts[i + 1], groups[g + 1], payload)))

\* A faulty cartesianGroups: the index restarts at 0 for every prompt.
RECURSIVE cartesianGroupsIndexG(_, _, _, _, _, _)
cartesianGroupsIndexG(prompts, groups, payload, i, g, jobs) ==
    IF i >= Len(prompts) THEN jobs
    ELSE IF g >= Len(groups)
         THEN cartesianGroupsIndexG(prompts, groups, payload, i + 1, 0, jobs)
         ELSE cartesianGroupsIndexG(prompts, groups, payload, i, g + 1,
                  Append(jobs, Job(g, prompts[i + 1], groups[g + 1], payload)))

\* for (i) for (g) jobs.push({index: idx++, prompt: prompts[i], refs: group})
\* i, g are the 0-based loop counters; idx = Len(jobs).
RECURSIVE cartesianGroups(_, _, _, _, _, _)
cartesianGroups(prompts, groups, payload, i, g, jobs) ==
    IF i >= Len(prompts) THEN jobs
    ELSE IF g >= Len(groups)
         THEN cartesianGroups(prompts, groups, payload, i + 1, 0, jobs)
         ELSE cartesianGroups(prompts, groups, payload, i, g + 1,
                  Append(jobs, Job(Len(jobs), prompts[i + 1], groups[g + 1], payload)))

\* A faulty cartesianShared: every job gets the whole shared list.
RECURSIVE cartesianSharedWholeList(_, _, _, _, _, _)
cartesianSharedWholeList(prompts, shared, payload, i, r, jobs) ==
    IF i >= Len(prompts) THEN jobs
    ELSE IF r >= Len(shared)
         THEN cartesianSharedWholeList(prompts, shared, payload, i + 1, 0, jobs)
         ELSE cartesianSharedWholeList(prompts, shared, payload, i, r + 1,
                  Append(jobs, Job(Len(jobs), prompts[i + 1], shared, payload)))

\* for (i) for (r) jobs.push({index: idx++, prompt: prompts[i], refs: [shared[r]]})
RECURSIVE cartesianShared(_, _, _, _, _, _)
cartesianShared(prompts, shared, payload, i, r, jobs) ==
    IF i >= Len(prompts) THEN jobs
    ELSE IF r >= Len(shared)
         THEN cartesianShared(prompts, shared, payload, i + 1, 0, jobs)
         ELSE cartesianShared(prompts, shared, payload, i, r + 1,
                  Append(jobs, Job(Len(jobs), prompts[i + 1], <<shared[r + 1]>>, payload)))

buildJobs(mode, sharedRefs, prompts, perPromptRefs, extraPayload) ==
    LET cleanedSharedRefs == filterBoolean(toArraySafe(sharedRefs, <<>>))
        pp == toArraySafe(perPromptRefs, <<>>)
        cleanedPerPrompt == [g \in 1..Len(pp) |-> toArraySafe(pp[g], <<>>)]
    IN  IF mode = ONE_TO_MANY
        THEN [n \in 1..Len(prompts) |->
                 Job(n - 1, prompts[n], cleanedSharedRefs, extraPayload)]
        ELSE IF mode = ZIP
        THEN [n \in 1..Min(Len(prompts), Len(cleanedPerPrompt)) |->
                 Job(n - 1, prompts[n], cleanedPerPrompt[n], extraPayload)]
        ELSE IF Len(cleanedPerPrompt) > 0
        THEN cartesianGroups(prompts, cleanedPerPrompt, extraPayload, 0, 0, <<>>)
        ELSE cartesianShared(prompts, cleanedSharedRefs, extraPayload, 0, 0, <<>>)

\* ------------------------------------------------------------ handles
\* uid("job"): a fresh identifier; n is the number of identifiers drawn so far.
uid(prefix, n) == <<prefix, n>>

simulateSubmit(job, n) ==
    [job_id |-> uid("job", n), status |-> "queued", job |-> job,
     submit_ts |-> DateNow, finish_ts |-> None,
     result_placeholder |-> None, error |-> None]

\* A faulty simulateRunJob: the failure branch forgets to set the status.
simulateRunJobKeepsStatus(handle, failed) ==
    IF failed
    THEN [handle EXCEPT !.error = Some("Simulated error"),
                        !.finish_ts = Some(DateNow)]
    ELSE [handle EXCEPT !.status = "succeeded",
                        !.result_placeholder = Some(<<"OK", handle.job.index>>),
                        !.finish_ts = Some(DateNow)]

\* A faulty simulateRunJob: the success branch forgets finish_ts.
simulateRunJobNoFinishTs(handle, failed) ==
    IF failed
    THEN [handle EXCEPT !.status = "failed",
                        !.error = Some("Simulated error"),
                        !.finish_ts = Some(DateNow)]
    ELSE [handle EXCEPT !.status = "succeeded",
                        !.result_placeholder = Some(<<"OK", handle.job.index>>)]

\* The value simulateRunJob's promise resolves to; failed is the outcome of
\* Math.random() < failRate.
simulateRunJob(handle, failed) ==
    IF failed
    THEN [handle EXCEPT !.status = "failed",
                        !.error = Some("Simulated error"),
                        !.finish_ts = Some(DateNow)]
    ELSE [handle EXCEPT !.status = "succeeded",
                        !.result_placeholder = Some(<<"OK", handle.job.index>>),
                        !.finish_ts = Some(DateNow)]

\* A faulty simulateRunJobInput: the outcome is assigned to handle itself.
simulateRunJobInputAssigned(handle, failed) ==
    [handle EXCEPT !.status = IF failed THEN "failed" ELSE "succeeded",
                   !.finish_ts = Some(DateNow)]

\* The object passed as handle, as it is once the promise has resolved: the
\* callback reads handle.job.index and spreads handle into a new object
\* literal; it assigns to no field of handle.
simulateRunJobInput(handle, failed) == handle

Terminal == {"succeeded", "failed"}

\* ------------------------------------------------------------ state
VARIABLES
    jobs,              \* useState<Job[]>: the current job list
    handles,           \* useState<Handle[]>: the handle list of the last Submit
    results,           \* useState<Handle[]>: accumulator and Collect output
    submitting,        \* useState(false)
    collecting,        \* useState(false)
    pool,              \* the locals of the runWithConcurrency call in progress, and its workers
    closure,           \* what the onSubmit in progress captured from its render
    nextId,            \* identifiers drawn from uid so far
    buildMark,         \* nextId at the last Build (history)
    call               \* the last direct call of buildJobs or simulateRunJob

vars == <<jobs, handles, results, submitting, collecting, pool, closure,
          nextId, buildMark, call>>

uiVars == <<jobs, handles, results, submitting, collecting, closure,
            nextId, buildMark, call>>

\* No direct call has been made.
noCall == [fn |-> "none"]

\* ------------------------------------------------------------ runWithConcurrency
\* No call of runWithConcurrency has been made yet.
idlePool ==
    [called |-> FALSE, q |-> <<>>, k |-> 1, i |-> 0, inFlight |-> 0, res |-> <<>>,
     resolved |-> FALSE, onProgress |-> FALSE, progress |-> <<>>,
     started |-> <<>>, pending |-> {}, settled |-> <<>>]

\* const q = items.slice(); const res = []; let inFlight = 0, i = 0;
\* started: the positions in q of the worker invocations, in the order made;
\* pending: the invocations (by ordinal in started) that have not settled;
\* settled: the invocations in the order they settled;
\* progress: the arguments of the onProgress calls, in order.
newPool(items, k, onProgress) ==
    [called |-> TRUE, q |-> items, k |-> k, i |-> 0, inFlight |-> 0, res |-> <<>>,
     resolved |-> FALSE, onProgress |-> onProgress, progress |-> <<>>,
     started |-> <<>>, pending |-> {}, settled |-> <<>>]

\* A faulty pumpCond: the cap compared with <= instead of <.
pumpCondOffByOne(p) == p.inFlight <= p.k /\ p.i < Len(p.q)

\* while (inFlight < k && i < q.length)
pumpCond(p) == p.inFlight < p.k /\ p.i < Len(p.q)

\* A faulty dispatch: q[i] read without advancing i.
dispatchNoAdvance(p) ==
    [p EXCEPT !.inFlight = @ + 1,
              !.started = Append(@, p.i + 1),
              !.pending = @ \cup {Len(p.started) + 1}]

\* A faulty dispatch: the items are taken from the end of q.
dispatchFromEnd(p) ==
    [p EXCEPT !.i = @ + 1,
              !.inFlight = @ + 1,
              !.started = Append(@, Len(p.q) - p.i),
              !.pending = @ \cup {Len(p.started) + 1}]

\* const item = q[i++]; inFlight++; worker(item)
dispatch(p) ==
    [p EXCEPT !.i = @ + 1,
              !.inFlight = @ + 1,
              !.started = Append(@, p.i + 1),
              !.pending = @ \cup {Len(p.started) + 1}]

RECURSIVE pump(_)
pump(p) == IF pumpCond(p) THEN pump(dispatch(p)) ELSE p

\* A faulty onFulfilled: res.unshift(r) instead of res.push(r).
onFulfilledUnshift(p, r) ==
    [p EXCEPT !.res = <<r>> \o @,
              !.progress = IF p.onProgress THEN Append(@, r) ELSE @]

\* .then((r) => { res.push(r); onProgress?.(r); })
onFulfilled(p, r) ==
    [p EXCEPT !.res = Append(@, r),
              !.progress = IF p.onProgress THEN Append(@, r) ELSE @]

\* A faulty allDone: resolve as soon as no worker is in flight.
allDoneIdle(p) == p.inFlight = 0

\* A faulty allDone: resolve as soon as every item has been dispatched.
allDispatched(p) == p.i = Len(p.q)

\* A faulty allDone: settled workers are counted, fulfilled or not.
allDoneSettled(p) == Len(p.settled) = Len(p.q)

\* res.length === items.length
allDone(p) == Len(p.res) = Len(p.q)

\* A faulty onFinally: the next items are dispatched only once the whole
\* batch in flight has settled.
onFinallyBatch(p) ==
    LET p1 == [p EXCEPT !.inFlight = @ - 1]
    IN  IF allDone(p1) THEN [p1 EXCEPT !.resolved = TRUE]
        ELSE IF p1.inFlight = 0 THEN pump(p1) ELSE p1

\* .finally(() => { inFlight--; res.length === items.length ? resolve(res) : pump(); })
onFinally(p) ==
    LET p1 == [p EXCEPT !.inFlight = @ - 1]
    IN  IF allDone(p1) THEN [p1 EXCEPT !.resolved = TRUE] ELSE pump(p1)

\* The promise of worker invocation n fulfils with r.
workerFulfilled(p, n, r) ==
    onFinally(onFulfilled([p EXCEPT !.pending = @ \ {n},
                                    !.settled = Append(@, n)], r))

\* The promise of worker invocation n rejects: the then callback is skipped
\* (nothing is pushed to res), the finally callback runs.
workerRejected(p, n) ==
    onFinally([p EXCEPT !.pending = @ \ {n}, !.settled = Append(@, n)])

runWithConcurrency(items, k, onProgress) == pump(newPool(items, k, onProgress))

\* ------------------------------------------------------------ the pool alone
\* runWithConcurrency driven by a worker that resolves, at a time of its own
\* choosing, to a value made from its item.
ItemValues == {"x", "y"}

ItemLists == UNION {[1..n -> ItemValues] : n \in 0..MaxItems}

workerResult(item, ok) == [of |-> item, ok |-> ok]

Init ==
    /\ jobs = <<>>
    /\ handles = <<>>
    /\ results = <<>>
    /\ submitting = FALSE
    /\ collecting = FALSE
    /\ pool = idlePool
    /\ closure = [jobs |-> <<>>, results |-> <<>>, autoCollect |-> FALSE]
    /\ nextId = 0
    /\ buildMark = 0
    /\ call = noCall

PoolRun ==
    /\ ~pool.called
    /\ \E items \in ItemLists, k \in 1..MaxK, onProgress \in BOOLEAN :
           pool' = runWithConcurrency(items, k, onProgress)
    /\ UNCHANGED uiVars

PoolWorkerSettles ==
    /\ pool.called
    /\ \E n \in pool.pending, ok \in BOOLEAN :
           pool' = workerFulfilled(pool, n, workerResult(pool.q[pool.started[n]], ok))
    /\ UNCHANGED uiVars

PoolNext == PoolRun \/ PoolWorkerSettles

PoolSpec == Init /\ [][PoolNext]_vars

\* The pool driven by a worker whose promise may also reject.
PoolWorkerRejects ==
    /\ pool.called
    /\ \E n \in pool.pending : pool' = workerRejected(pool, n)
    /\ UNCHANGED uiVars

RejectNext == PoolRun \/ PoolWorkerSettles \/ PoolWorkerRejects

RejectSpec == Init /\ [][RejectNext]_vars

\* ------------------------------------------------------------ the App component
\* The form fields read by Build: mode, prompts, shared references, per-prompt
\* groups.  The lifecycle reads a job list only through its length and its
\* jobs' index fields; with one shared reference list every length up to
\* MaxPrompts is built in one-to-many mode.
UiModes == {ONE_TO_MANY}

AllPrompts == <<"p1", "p2", "p3">>

UiPrompts == {SubSeq(AllPrompts, 1, m) : m \in 0..MaxPrompts}

UiSharedRefs == {<<"S1">>}

UiPerPromptRefs == {<< <<"S1">> >>}

ExtraPayload == "768x1024"

noClosure == [jobs |-> <<>>, results |-> <<>>, autoCollect |-> FALSE]

\* A faulty upsert: the finished handle is always appended.
upsertAlwaysAppend(prev, finished) == Append(prev, finished)

\* setResults((prev) => exists ? prev.map(replace) : [...prev, finished])
upsert(prev, finished) ==
    IF \E n \in 1..Len(prev) : prev[n].job_id = finished.job_id
    THEN [n \in 1..Len(prev) |->
             IF prev[n].job_id = finished.job_id THEN finished ELSE prev[n]]
    ELSE Append(prev, finished)

\* results.forEach((r) => { byIndex[r.job.index] = r; }), from entry n on.
RECURSIVE byIndexFrom(_, _, _)
byIndexFrom(rs, n, byIndex) ==
    IF n > Len(rs) THEN byIndex
    ELSE byIndexFrom(rs, n + 1,
             [x \in DOMAIN byIndex \cup {rs[n].job.index} |->
                 IF x = rs[n].job.index THEN rs[n] ELSE byIndex[x]])

pendingHandle(j) ==
    [job_id |-> uid("pending", j.index), status |-> "queued", job |-> j,
     submit_ts |-> DateNow, finish_ts |-> None,
     result_placeholder |-> None, error |-> None]

\* jobs.map((j) => byIndex[j.index] || {job_id: `pending_${j.index}`, ...})
\* for the results and jobs the onCollect closure reads.
aligned(rs, js) ==
    LET byIndex == byIndexFrom(rs, 1, <<>>)
    IN  [n \in 1..Len(js) |->
            IF js[n].index \in DOMAIN byIndex
            THEN byIndex[js[n].index]
            ELSE pendingHandle(js[n])]

\* A faulty queuedHandles: the handles keep the status simulateSubmit gave.
queuedHandlesQueued(js, firstId) ==
    [n \in 1..Len(js) |-> simulateSubmit(js[n], firstId + n - 1)]

\* jobs.map((job) => ({...simulateSubmit(job), status: "running"}))
queuedHandles(js, firstId) ==
    [n \in 1..Len(js) |->
        [simulateSubmit(js[n], firstId + n - 1) EXCEPT !.status = "running"]]

onBuildJobs ==
    /\ \E mode \in UiModes, prompts \in UiPrompts,
          sharedRefs \in UiSharedRefs, perPromptRefs \in UiPerPromptRefs :
           jobs' = buildJobs(mode, Arr(sharedRefs), prompts,
                             Arr([g \in 1..Len(perPromptRefs) |-> Arr(perPromptRefs[g])]),
                             ExtraPayload)
    /\ handles' = <<>>
    /\ results' = <<>>
    /\ buildMark' = nextId
    /\ UNCHANGED <<submitting, collecting, pool, closure, nextId, call>>

\* A faulty onSubmit: no test of jobs.length, in the handler or on the button.
onSubmitUnguarded(maxConcurrency, autoCollect) ==
    /\ ~submitting
    /\ nextId + Len(jobs) <= MaxIds
    /\ LET queued == queuedHandles(jobs, nextId)
       IN  /\ handles' = queued
           /\ pool' = runWithConcurrency(queued, maxConcurrency, FALSE)
           /\ nextId' = nextId + Len(jobs)
    /\ submitting' = TRUE
    /\ closure' = [jobs |-> jobs, results |-> results, autoCollect |-> autoCollect]
    /\ UNCHANGED <<jobs, results, collecting, buildMark, call>>

\* A click on Submit, with the slider at maxConcurrency and the checkbox at
\* autoCollect.  The button is disabled while !jobs.length || submitting.
onSubmit(maxConcurrency, autoCollect) ==
    /\ Len(jobs) # 0
    /\ ~submitting
    /\ nextId + Len(jobs) <= MaxIds
    /\ LET queued == queuedHandles(jobs, nextId)
       IN  /\ handles' = queued
           /\ pool' = runWithConcurrency(queued, maxConcurrency, FALSE)
           /\ nextId' = nextId + Len(jobs)
    /\ submitting' = TRUE
    /\ closure' = [jobs |-> jobs, results |-> results, autoCollect |-> autoCollect]
    /\ UNCHANGED <<jobs, results, collecting, buildMark, call>>

Submit == \E maxConcurrency \in 1..MaxK, autoCollect \in BOOLEAN :
              onSubmit(maxConcurrency, autoCollect)

\* The setTimeout callback of simulateRunJob for worker invocation n, with the
\* promise reactions it triggers: the worker's setResults upsert, the pool's
\* then/finally and, when the pool resolves, the rest of onSubmit:
\* setSubmitting(false); if (autoCollect) await onCollect().  onSubmit drops
\* the list the pool resolved with; the locals of the pool call die once no
\* worker callback can reach them.
released(p) == IF p.pending = {} /\ p.i = Len(p.q) THEN idlePool ELSE p

workerTimer(n, failed) ==
    LET finished == simulateRunJob(pool.q[pool.started[n]], failed)
        acc == upsert(results, finished)
        p == workerFulfilled(pool, n, finished)
    IN  /\ pool' = IF p.resolved THEN released(p) ELSE p
        /\ IF p.resolved
           THEN /\ submitting' = FALSE
                /\ closure' = noClosure
                /\ IF closure.autoCollect
                   THEN /\ results' = aligned(closure.results, closure.jobs)
                        /\ collecting' = TRUE
                   ELSE /\ results' = acc
                        /\ UNCHANGED collecting
           ELSE /\ results' = acc
                /\ UNCHANGED <<submitting, closure, collecting>>
        /\ UNCHANGED <<jobs, handles, nextId, buildMark, call>>

WorkerSettles ==
    /\ pool.called
    /\ \E n \in pool.pending, failed \in BOOLEAN : workerTimer(n, failed)

\* A click on Collect Results (the button is always enabled).
onCollect ==
    /\ collecting' = TRUE
    /\ results' = aligned(results, jobs)
    /\ UNCHANGED <<jobs, handles, submitting, pool, closure, nextId, buildMark,
                 call>>

\* await new Promise((r) => setTimeout(r, 200)); setCollecting(false).
\* Every onCollect leaves one such timer; a timer that fires when collecting
\* is already false changes nothing.
CollectTimer ==
    /\ collecting
    /\ collecting' = FALSE
    /\ UNCHANGED <<jobs, handles, results, submitting, pool, closure, nextId,
                   buildMark, call>>

Next ==
    \/ onBuildJobs
    \/ Submit
    \/ WorkerSettles
    \/ onCollect
    \/ CollectTimer

Spec == Init /\ [][Next]_vars

\* The timers set by simulateRunJob and onCollect (setTimeout) fire: a worker
\* timer that is pending is eventually run, and so is a pending Collect timer.
FairSpec == Spec /\ WF_vars(WorkerSettles) /\ WF_vars(CollectTimer)

\* ------------------------------------------------------------ direct calls
\* buildJobs and simulateRunJob called on their own (as runBuildJobsTests
\* does for buildJobs), over every input up to the bounds; a behaviour makes
\* one call.
appVars == <<jobs, handles, results, submitting, collecting, pool, closure,
             nextId, buildMark>>

CallModes == PairingMode \cup {OTHER_MODE}

RefValues == {"S1", "S2", ""}

\* sharedRefs: undefined, a string, or a list of strings, some of them empty.
CallSharedRefs ==
    {NotArr, ArrayLike(<<"S1">>)}
        \cup {Arr(s) : s \in UNION {[1..n -> RefValues] : n \in 0..MaxRefs}}

\* One entry of perPromptRefs: undefined, a string, or a list of strings.
GroupValues == {NotArr, ArrayLike(<<"A">>), Arr(<<>>), Arr(<<"A">>), Arr(<<"B", "C">>)}

\* perPromptRefs: undefined, a string, or a list of such entries.
CallPerPromptRefs ==
    {NotArr, ArrayLike(<<Arr(<<"A">>)>>)}
        \cup {Arr(s) : s \in UNION {[1..n -> GroupValues] : n \in 0..MaxGroups}}

\* prompts: undefined, or a list of strings.
CallPrompts == {NotArr} \cup {Arr(prompts) : prompts \in UiPrompts}

\* Every mode reads prompts without a test: prompts.forEach (one-to-many),
\* prompts.length (zip, and the loop condition of either cartesian loop).
\* On undefined that read throws a TypeError and buildJobs returns nothing.
buildJobsThrows(mode, prompts) == ~prompts.isArray

buildJobsCall ==
    /\ call = noCall
    /\ \E mode \in CallModes, prompts \in CallPrompts,
          sharedRefs \in CallSharedRefs, perPromptRefs \in CallPerPromptRefs :
           call' = [fn |-> "buildJobs", mode |-> mode, sharedRefs |-> sharedRefs,
                    prompts |-> prompts, perPromptRefs |-> perPromptRefs,
                    threw |-> buildJobsThrows(mode, prompts),
                    out |-> IF buildJobsThrows(mode, prompts) THEN <<>>
                            ELSE buildJobs(mode, sharedRefs, prompts.elems,
                                           perPromptRefs, ExtraPayload)]
    /\ UNCHANGED appVars

\* The handles simulateRunJob is called on: any job, any identifier, queued
\* (as simulateSubmit returns it) or running (as onSubmit passes it).
CallHandles ==
    {[simulateSubmit(Job(index, "p1", refs, ExtraPayload), n) EXCEPT !.status = st] :
        index \in 0..MaxPrompts, refs \in {<<>>, <<"S1">>, <<"S1", "S2">>},
        n \in 0..(MaxIds - 1), st \in {"queued", "running"}}

simulateRunJobCall ==
    /\ call = noCall
    /\ \E handle \in CallHandles, failed \in BOOLEAN :
           call' = [fn |-> "simulateRunJob", handle |-> handle, failed |-> failed,
                    input |-> simulateRunJobInput(handle, failed),
                    out |-> simulateRunJob(handle, failed)]
    /\ UNCHANGED appVars

CallNext == buildJobsCall \/ simulateRunJobCall

CallSpec == Init /\ [][CallNext]_vars

\* ------------------------------------------------------------ claims: the pool
NoDuplicates(s) == \A a, b \in 1..Len(s) : a # b => s[a] # s[b]

\* C1: during a run of runWithConcurrency(items, worker, K), K >= 1, the
\* worker invocations started and not yet settled are at most K.
C1_AtMostKInFlight ==
    pool.called => Cardinality(pool.pending) <= pool.k

\* The cap is reached with items still waiting, after a first completion.
C1_Witness ==
    /\ pool.called
    /\ Cardinality(pool.pending) = pool.k
    /\ pool.i < Len(pool.q)
    /\ Len(pool.res) > 0

\* C4: runWithConcurrency with an empty item list resolves with an empty
\* result list and never invokes the worker.
C4_EmptyResolves ==
    (pool.called /\ Len(pool.q) = 0) =>
        (pool.resolved /\ pool.res = <<>> /\ pool.started = <<>>)

\* C5: every item is passed to the worker exactly once: no item is dispatched
\* twice and, once the pool has resolved, none is left undispatched.
C5_ExactlyOnce ==
    pool.called =>
        /\ NoDuplicates(pool.started)
        /\ Range(pool.started) \subseteq 1..Len(pool.q)
        /\ pool.resolved => Range(pool.started) = 1..Len(pool.q)

\* A resolved run over more items than the cap admits at once.
C5_Witness ==
    /\ pool.resolved
    /\ pool.k < Len(pool.q)
    /\ Len(pool.started) = Len(pool.q)

\* The results in res that came from the worker invocation of position pos.
ResultsOf(p, pos) ==
    {n \in 1..Len(p.res) : n <= Len(p.settled) /\ p.started[p.settled[n]] = pos}

\* C6: when runWithConcurrency resolves, the list holds exactly len(items)
\* results, exactly one per dispatched item; it is not resolved while any
\* item's result is missing.
C6_AllResults ==
    pool.resolved =>
        /\ Len(pool.res) = Len(pool.q)
        /\ pool.pending = {}
        /\ \A pos \in 1..Len(pool.q) :
               /\ Cardinality(ResultsOf(pool, pos)) = 1
               /\ \A n \in ResultsOf(pool, pos) : pool.res[n].of = pool.q[pos]

\* A run of the longest item list has resolved.
C6_Witness ==
    /\ pool.resolved
    /\ Len(pool.q) >= 2
    /\ Len(pool.res) = Len(pool.q)

\* C7: the result list is in completion order (the order in which the workers
\* settled), and onProgress is called once per completed item, in that order,
\* when the item's result is appended.
C7_CompletionOrder ==
    pool.called =>
        /\ Len(pool.res) = Len(pool.settled)
        /\ \A n \in 1..Len(pool.res) :
               pool.res[n].of = pool.q[pool.started[pool.settled[n]]]
        /\ pool.onProgress => pool.progress = pool.res
        /\ ~pool.onProgress => pool.progress = <<>>

\* Two workers over different items settled in the reverse of their start
\* order, with onProgress supplied.
C7_Witness ==
    /\ pool.onProgress
    /\ Len(pool.settled) >= 2
    /\ pool.settled[1] > pool.settled[2]
    /\ pool.res[1].of # pool.res[2].of
    /\ Len(pool.progress) = Len(pool.res)

\* ------------------------------------------------------------ claims: the lifecycle
IsJobId(id) == id[1] = "job"

\* A step in which the Collect Results click ran onCollect.
ManualCollectStep == onCollect

\* A step in which the pool resolved and onSubmit went on to run onCollect.
AutoCollectStep ==
    /\ submitting
    /\ ~submitting'
    /\ closure.autoCollect

\* The accumulators (the latest results state) that onCollect may be invoked
\* on in this step: after a click it is results; after the pool resolved it
\* is results with the last completion, of either outcome, upserted.
AccAtCollect ==
    IF AutoCollectStep
    THEN {upsert(results, simulateRunJob(pool.q[pool.started[n]], failed)) :
              n \in pool.pending, failed \in BOOLEAN}
    ELSE {results}

\* C2: a Collect output has the length of the current job list and its entry
\* at position i wraps a job of index i, whenever Collect is invoked, a
\* Collect auto-triggered by a Submit that a later Build superseded included.
C2_CollectAligned ==
    [][(ManualCollectStep \/ AutoCollectStep) =>
          /\ Len(results') = Len(jobs')
          /\ \A n \in 1..Len(results') : results'[n].job.index = n - 1]_vars

\* The completed results the accumulator holds for job index i.
CompletedFor(acc, i) ==
    {m \in 1..Len(acc) : acc[m].job.index = i /\ acc[m].status \in Terminal}

\* C3: for each job index i, if the accumulator holds a completed result of
\* index i when Collect is invoked, output[i] is that result; otherwise
\* output[i] is a placeholder: queued, job_id pending_<i>, no finish_ts,
\* result_placeholder or error.
C3_CollectUsesResults ==
    [][(ManualCollectStep \/ AutoCollectStep) =>
          \A n \in 1..Len(jobs) :
              LET i == jobs[n].index
              IN  /\ n <= Len(results')
                  /\ IF \E acc \in AccAtCollect : CompletedFor(acc, i) # {}
                     THEN \E acc \in AccAtCollect :
                              \E m \in CompletedFor(acc, i) : results'[n] = acc[m]
                     ELSE /\ results'[n].status = "queued"
                          /\ results'[n].job_id = uid("pending", i)
                          /\ results'[n].finish_ts = None
                          /\ results'[n].result_placeholder = None
                          /\ results'[n].error = None]_vars

\* The entries of the accumulator that carry a job_id drawn by Submit.
Recorded == {results[n] : n \in {m \in 1..Len(results) : IsJobId(results[m].job_id)}}

C8_State ==
    /\ \A n \in 1..Len(jobs) : simulateSubmit(jobs[n], nextId).status = "queued"
    /\ \A h \in Range(handles) \cup Range(pool.q) : h.status = "running"
    /\ \A r \in Recorded \cup Range(pool.res) : r.status \in Terminal
    /\ NoDuplicates([n \in 1..Len(pool.res) |-> pool.res[n].job_id])
    /\ \A n \in 1..Len(pool.res) : \E h \in Range(pool.q) :
           pool.res[n] = [h EXCEPT !.status = pool.res[n].status,
                                   !.finish_ts = pool.res[n].finish_ts,
                                   !.error = pool.res[n].error,
                                   !.result_placeholder = pool.res[n].result_placeholder]

C8_Step ==
    \A r \in Recorded :
        \A n \in 1..Len(results') :
            results'[n].job_id = r.job_id => results'[n].status = r.status

\* C8: a handle (by job_id) is created queued, is running when handed to the
\* pool, makes exactly one transition to succeeded or failed, and the status
\* recorded for it never goes back to queued or running through later
\* completions, Collect or Submit.
C8_HandleLifecycle == []C8_State /\ [][C8_Step]_vars

\* A terminal result is still recorded after a later Submit replaced the
\* handle list and a Collect ran.
C8_Witness ==
    /\ \E r \in Recorded : \A h \in Range(handles) : h.job_id # r.job_id
    /\ \E n \in 1..Len(results) : ~IsJobId(results[n].job_id)
    /\ handles # <<>>

\* C9: Build discards all prior lifecycle state: right after Build the handle
\* list and the accumulator are empty, and no result of a handle created
\* before that Build appears afterwards in the accumulator or in a Collect
\* output, even if a Submit of the previous build was still in flight.
C9_BuildDiscards ==
    /\ [][onBuildJobs => (handles' = <<>> /\ results' = <<>>)]_vars
    /\ [](\A r \in Recorded : r.job_id[2] >= buildMark)

\* Some handle of the running Submit is undispatched or has not settled.
PoolBusy ==
    /\ pool.called
    /\ \/ pool.i < Len(pool.q)
       \/ pool.pending # {}
       \/ Len(pool.res) < Len(pool.q)

\* C10: Submit does not return (submitting is not cleared, auto-collect is not
\* started) until every handle it created was dispatched and has settled.
C10_SubmitAwaitsDrain ==
    PoolBusy => (submitting /\ ~pool.resolved /\ closure # noClosure)

\* The last worker of a Submit over more handles than the cap is about to
\* settle: every other handle has been dispatched and has settled.
C10_Witness ==
    /\ submitting
    /\ pool.k < Len(pool.q)
    /\ pool.i = Len(pool.q)
    /\ Len(pool.res) = Len(pool.q) - 1

\* ------------------------------------------------------------ claims: termination
\* The handle list of the current Submit holds a handle with identifier id.
CreatedBySubmit(id) == \E n \in 1..Len(handles) : handles[n].job_id = id

\* The accumulator holds the handle with identifier id in a terminal status.
RecordedTerminal(id) ==
    \E n \in 1..Len(results) :
        results[n].job_id = id /\ results[n].status \in Terminal

\* C11: with every timer eventually firing, a Submit over a non-empty job list
\* eventually returns (the pool resolves), and every handle it created is
\* eventually held in the accumulator with a terminal status.
C11_EventuallyTerminal ==
    /\ submitting ~> ~submitting
    /\ \A n \in 0..(MaxIds - 1) :
           CreatedBySubmit(uid("job", n)) ~> RecordedTerminal(uid("job", n))

\* ------------------------------------------------------------ claims: handles
\* The presence rules of the optional fields of a Handle.
FieldPresence(h) ==
    /\ (h.result_placeholder # None) <=> (h.status = "succeeded")
    /\ (h.error # None) <=> (h.status = "failed")
    /\ (h.finish_ts # None) <=> (h.status \in Terminal)

\* C12: every handle in the handle list, in the accumulator or in a Collect
\* output (the accumulator after onCollect) has result_placeholder iff it
\* succeeded, error iff it failed, and finish_ts iff its status is terminal.
C12_FieldPresence ==
    \A h \in Range(handles) \cup Range(results) : FieldPresence(h)

\* A Collect output holding a failed handle next to a placeholder, with the
\* running handles of the Submit still listed.
C12_Witness ==
    /\ collecting
    /\ \E h \in Range(results) : h.status = "failed"
    /\ \E h \in Range(results) : h.status = "queued"
    /\ \E h \in Range(handles) : h.status = "running"

\* C13: simulateRunJob leaves the handle it was passed as it was, and resolves
\* to a handle with the same job_id, job and submit_ts, a terminal status
\* and, on success, the result_placeholder OK:<job.index>, whatever the
\* job_id and the refs are.
C13_RunJobFrame ==
    call.fn = "simulateRunJob" =>
        /\ call.input = call.handle
        /\ call.out.job_id = call.handle.job_id
        /\ call.out.job = call.handle.job
        /\ call.out.submit_ts = call.handle.submit_ts
        /\ call.out.status \in Terminal
        /\ call.out.status = "succeeded" =>
               call.out.result_placeholder = Some(<<"OK", call.handle.job.index>>)

\* A successful run of a running handle whose job has two refs and an index
\* different from the number in its job_id.
C13_Witness ==
    /\ call.fn = "simulateRunJob"
    /\ call.handle.status = "running"
    /\ call.out.status = "succeeded"
    /\ Len(call.handle.job.refs) = 2
    /\ call.handle.job.index # call.handle.job_id[2]

\* ------------------------------------------------------------ claims: buildJobs
\* The call was one of buildJobs and returned a job list.
BuildReturned == call.fn = "buildJobs" /\ ~call.threw

\* C14: in the list returned by one buildJobs call, whatever the mode and the
\* inputs, the job at position i (from 0) has index i: the indices are
\* exactly 0..N-1.
C14_IndexIsPosition ==
    BuildReturned =>
        \A n \in 1..Len(call.out) : call.out[n].index = n - 1

\* A cartesian call over two prompts and two groups: four jobs.
C14_Witness ==
    /\ BuildReturned
    /\ call.mode = CARTESIAN
    /\ Len(call.prompts.elems) = 2
    /\ call.perPromptRefs.isArray
    /\ Len(call.perPromptRefs.elems) = 2
    /\ Len(call.out) = 4

\* C15: a buildJobs call with a mode value other than one-to-many, zip and
\* cartesian returns the empty list, and so does a call with no prompts, in
\* every mode.
C15_EmptyJobList ==
    (BuildReturned /\ (call.mode \notin PairingMode \/ Len(call.prompts.elems) = 0))
        => call.out = <<>>

\* The references of one entry of a group list: those of a list, none of an
\* entry that is not a list.
GroupRefs(x) == IF x.isArray THEN x.elems ELSE <<>>

\* The call is a cartesian one with a non-empty list of groups.
CartesianWithGroups ==
    /\ BuildReturned
    /\ call.mode = CARTESIAN
    /\ call.perPromptRefs.isArray
    /\ Len(call.perPromptRefs.elems) > 0

\* C16: cartesian mode with a non-empty group list G returns len(P) x len(G)
\* jobs, prompts outer and groups inner: the job with index i*len(G)+g has
\* prompt P[i] and refs G[g], whatever the shared refs are, and the jobs with
\* no refs number len(P) x (the number of empty groups of G).
C16_CartesianGroups ==
    CartesianWithGroups =>
        LET P == call.prompts.elems
            G == call.perPromptRefs.elems
            out == call.out
        IN  /\ Len(out) = Len(P) * Len(G)
            /\ \A i \in 0..(Len(P) - 1), g \in 0..(Len(G) - 1) :
                   LET j == out[i * Len(G) + g + 1]
                   IN  /\ j.index = i * Len(G) + g
                       /\ j.prompt = P[i + 1]
                       /\ j.refs = GroupRefs(G[g + 1])
            /\ Cardinality({n \in 1..Len(out) : Len(out[n].refs) = 0})
                   = Len(P) * Cardinality({g \in 1..Len(G) : Len(GroupRefs(G[g])) = 0})

\* Two prompts against an empty group and a two-reference group, with shared
\* refs supplied as well: four jobs, two of them text-only.
C16_Witness ==
    /\ CartesianWithGroups
    /\ Len(call.prompts.elems) = 2
    /\ call.perPromptRefs.elems = <<Arr(<<>>), Arr(<<"B", "C">>)>>
    /\ call.sharedRefs = Arr(<<"S1", "S2">>)
    /\ Len(call.out) = 4
    /\ Cardinality({n \in 1..Len(call.out) : Len(call.out[n].refs) = 0}) = 2

\* The shared references S of a call: the non-empty entries of sharedRefs
\* when it is a list, none otherwise.
CleanedShared(x) == SelectSeq(GroupRefs(x), LAMBDA e : e # "")

\* The call is a cartesian one with no groups: perPromptRefs is missing, not
\* a list, or the empty list.
CartesianNoGroups ==
    /\ BuildReturned
    /\ call.mode = CARTESIAN
    /\ Len(GroupRefs(call.perPromptRefs)) = 0

\* C17: cartesian mode with no groups returns len(P) x len(S) jobs for the
\* shared refs S, prompts outer and references inner: the job with index
\* i*len(S)+r has prompt P[i] and the one-element refs [S[r]]; with S empty it
\* returns no job.
C17_CartesianFallback ==
    CartesianNoGroups =>
        LET P == call.prompts.elems
            S == CleanedShared(call.sharedRefs)
            out == call.out
        IN  /\ Len(out) = Len(P) * Len(S)
            /\ \A i \in 0..(Len(P) - 1), r \in 0..(Len(S) - 1) :
                   LET j == out[i * Len(S) + r + 1]
                   IN  /\ j.index = i * Len(S) + r
                       /\ j.prompt = P[i + 1]
                       /\ j.refs = <<S[r + 1]>>

\* Two prompts against the shared refs [S1, S2] with perPromptRefs undefined:
\* four jobs of one reference each.
C17_Witness ==
    /\ CartesianNoGroups
    /\ call.perPromptRefs = NotArr
    /\ call.sharedRefs = Arr(<<"S1", "S2">>)
    /\ Len(call.prompts.elems) = 2
    /\ Len(call.out) = 4
    /\ call.out[4].refs = <<"S2">>

ZipCall == BuildReturned /\ call.mode = ZIP

\* C18: zip mode returns min(len(P), len(G)) jobs, job i with prompt P[i]
\* and refs G[i]; the prompts or groups beyond the shorter list are dropped,
\* and with the groups undefined no job is returned.
C18_Zip ==
    ZipCall =>
        LET P == call.prompts.elems
            G == GroupRefs(call.perPromptRefs)
            out == call.out
        IN  /\ Len(out) <= Len(P)
            /\ Len(out) <= Len(G)
            /\ Len(out) = Len(P) \/ Len(out) = Len(G)
            /\ \A n \in 1..Len(out) :
                   /\ out[n].index = n - 1
                   /\ out[n].prompt = P[n]
                   /\ out[n].refs = GroupRefs(G[n])
            /\ call.perPromptRefs = NotArr => out = <<>>

\* One prompt zipped with two groups, the first of two references: one job,
\* the second group dropped.
C18_Witness ==
    /\ ZipCall
    /\ Len(call.prompts.elems) = 1
    /\ call.perPromptRefs = Arr(<<Arr(<<"B", "C">>), Arr(<<"A">>)>>)
    /\ Len(call.out) = 1
    /\ call.out[1].refs = <<"B", "C">>

OneToManyCall == BuildReturned /\ call.mode = ONE_TO_MANY

\* C19: one-to-many mode returns len(P) jobs with indices 0..len(P)-1; job i
\* has prompt P[i] and the whole cleaned shared list S as refs, whatever the
\* per-prompt groups are; with S empty every job has no refs.
C19_OneToMany ==
    OneToManyCall =>
        LET P == call.prompts.elems
            S == CleanedShared(call.sharedRefs)
            out == call.out
        IN  /\ Len(out) = Len(P)
            /\ \A n \in 1..Len(out) :
                   /\ out[n].index = n - 1
                   /\ out[n].prompt = P[n]
                   /\ out[n].refs = S

\* Two prompts, a shared list with one empty entry, and a group supplied:
\* both jobs carry the cleaned shared list.
C19_Witness ==
    /\ OneToManyCall
    /\ Len(call.prompts.elems) = 2
    /\ call.sharedRefs = Arr(<<"S1", "">>)
    /\ call.perPromptRefs = Arr(<<Arr(<<"A">>)>>)
    /\ Len(call.out) = 2
    /\ call.out[2].refs = <<"S1">>

\* perPromptRefs with everything that is not a list replaced by the empty list.
CleanedGroups(x) ==
    Arr([g \in 1..Len(GroupRefs(x)) |-> Arr(GroupRefs(GroupRefs(x)[g]))])

\* C20: no buildJobs call raises; each returns the job list that the same
\* call returns with every non-list sharedRefs, perPromptRefs and entry of
\* perPromptRefs replaced by the empty list and the empty entries of
\* sharedRefs removed.
C20_NeverRaises ==
    call.fn = "buildJobs" =>
        /\ ~call.threw
        /\ call.out = buildJobs(call.mode, Arr(CleanedShared(call.sharedRefs)),
                                call.prompts.elems, CleanedGroups(call.perPromptRefs),
                                ExtraPayload)

\* ------------------------------------------------------------ claims: the accumulator
\* C21: a Collect, started by the button or by Submit, leaves the accumulator
\* as it was when the Collect was invoked.
C21_CollectKeepsAccumulator ==
    [][(ManualCollectStep \/ AutoCollectStep) => results' \in AccAtCollect]_vars

\* ------------------------------------------------------------ claims: admission
\* C22: at every quiescent point of a pool run that has not resolved, either
\* no undispatched item remains or exactly K workers are in flight; with
\* K >= len(items) every item is dispatched before any result arrives.
C22_SlidingWindow ==
    (pool.called /\ ~pool.resolved) =>
        /\ pool.i = Len(pool.q) \/ Cardinality(pool.pending) = pool.k
        /\ pool.k >= Len(pool.q) => pool.i = Len(pool.q)

\* One of two workers has settled, and the third item took the freed slot
\* while the other worker is still in flight.
C22_Witness ==
    /\ pool.called
    /\ pool.k = 2
    /\ Len(pool.q) = 3
    /\ Len(pool.settled) = 1
    /\ pool.i = 3
    /\ Cardinality(pool.pending) = 2

\* The completions that can arrive next: either outcome of a pending worker.
NextCompletions ==
    {simulateRunJob(pool.q[pool.started[n]], failed) :
        n \in pool.pending, failed \in BOOLEAN}

\* The positions of acc that hold the identifier id.
PositionsOf(acc, id) == {m \in 1..Len(acc) : acc[m].job_id = id}

\* C23: the accumulator holds at most one entry per job_id; the upsert of a
\* completion whose job_id is present replaces that entry in place, the
\* upsert of one whose job_id is new appends it, and upserting the same
\* completion a second time changes nothing.
C23_UpsertByJobId ==
    /\ NoDuplicates([n \in 1..Len(results) |-> results[n].job_id])
    /\ \A f \in NextCompletions :
           LET once == upsert(results, f)
               twice == upsert(once, f)
               other == [f EXCEPT !.status = IF f.status = "failed"
                                             THEN "succeeded" ELSE "failed"]
               replaced == upsert(once, other)
           IN  /\ PositionsOf(results, f.job_id) = {} => once = Append(results, f)
               /\ Cardinality(PositionsOf(once, f.job_id)) = 1
               /\ twice = once
               /\ Len(replaced) = Len(once)
               /\ \A m \in 1..Len(once) :
                      replaced[m] = IF once[m].job_id = f.job_id THEN other ELSE once[m]

\* The accumulator holds the result of an earlier job_id while a worker of a
\* later Submit is pending.
C23_Witness ==
    /\ pool.called
    /\ pool.pending # {}
    /\ \E r \in Recorded : \A f \in NextCompletions : r.job_id # f.job_id

\* A result delivered by the run of a superseded build: its job_id was drawn
\* by a Submit made before the latest Build.
Superseded(r) == IsJobId(r.job_id) /\ r.job_id[2] < buildMark

\* C24: no Collect output holds a result of a superseded build whose job index
\* is not an index of the current job list.
C24_StaleIgnored ==
    [][(ManualCollectStep \/ AutoCollectStep) =>
          \A n \in 1..Len(results') :
              Superseded(results'[n]) =>
                  \E m \in 1..Len(jobs') : jobs'[m].index = results'[n].job.index]_vars

\* Submit was clicked on a freshly built job list (empty accumulator) with
\* Auto-Collect on, and neither Build nor a new Submit came in between: the
\* job list and the handle list are those of the click.
FreshAutoSubmitReturns ==
    /\ AutoCollectStep
    /\ closure.results = <<>>
    /\ jobs = closure.jobs
    /\ Len(handles) = Len(jobs)

\* C25: when a Submit with Auto-Collect on, made right after a Build, returns,
\* the results list holds for every job index i the terminal handle that
\* Submit produced for job i (succeeded with OK:<i>, or failed with an
\* error), and no queued placeholder.
C25_AutoCollectTerminal ==
    [][FreshAutoSubmitReturns =>
          /\ Len(results') = Len(jobs)
          /\ \A n \in 1..Len(jobs) :
                 LET r == results'[n]
                 IN  /\ r.job_id = handles[n].job_id
                     /\ r.job.index = jobs[n].index
                     /\ r.status \in Terminal
                     /\ r.status = "succeeded" =>
                            r.result_placeholder = Some(<<"OK", jobs[n].index>>)
                     /\ r.status = "failed" => r.error # None]_vars

\* C26: the accumulator holds at most one entry per job index, and so never
\* more entries than the current job list has jobs.
C26_OnePerIndex ==
    /\ NoDuplicates([n \in 1..Len(results) |-> results[n].job.index])
    /\ Len(results) <= Len(jobs)

\* ------------------------------------------------------------ claims: rejection
\* Some worker promise of the run has rejected: more invocations have settled
\* than results were pushed.
RejectedSome == pool.called /\ Len(pool.settled) > Len(pool.res)

\* C27: once a worker's promise has rejected, the pool goes on dispatching
\* (a freed slot is refilled while items remain) but its promise is never
\* settled: it has not resolved in any later state.
C27_RejectNeverResolves ==
    RejectedSome =>
        /\ ~pool.resolved
        /\ pool.i = Len(pool.q) \/ Cardinality(pool.pending) = pool.k

\* Three items, every one dispatched and settled, one of them by rejection:
\* two results, and the pool still unresolved.
C27_Witness ==
    /\ RejectedSome
    /\ Len(pool.q) = 3
    /\ pool.i = 3
    /\ pool.pending = {}
    /\ Len(pool.res) = 2
    /\ ~pool.resolved

\* ------------------------------------------------------------ claims: the handle list
\* C28: Submit lists one handle per job, all of them running from the start
\* whatever K is; only Build and Submit write the handle list, so completions
\* and Collect leave every entry running while the terminal statuses go to
\* the accumulator.
C28_HandlesStayRunning ==
    /\ [](\A h \in Range(handles) : h.status = "running")
    /\ [][Submit => Len(handles') = Len(jobs)]_vars
    /\ [][handles' # handles => (onBuildJobs \/ Submit)]_vars

\* Two handles under K = 1: the first has completed and is recorded as
\* terminal, a Collect has run, and the second is still in flight.
C28_Witness ==
    /\ Len(handles) = 2
    /\ pool.called
    /\ pool.k = 1
    /\ Len(pool.res) = 1
    /\ collecting
    /\ \E r \in Recorded : r.job_id = handles[1].job_id /\ r.status \in Terminal

\* ------------------------------------------------------------ claims: start order
\* C29: the workers are started in input order: the n-th invocation made is
\* the one of item n, whatever K is and in whatever order workers complete.
C29_StartInInputOrder ==
    pool.called => \A n \in 1..Len(pool.started) : pool.started[n] = n

\* All three items started under K = 2 after the second worker completed
\* before the first.
C29_Witness ==
    /\ pool.called
    /\ pool.k = 2
    /\ Len(pool.started) = 3
    /\ Len(pool.settled) >= 1
    /\ pool.settled[1] = 2

\* ------------------------------------------------------------ claims: empty Submit
\* C30: while the job list is empty no Submit takes effect: no step sets the
\* submitting flag, lists handles or starts a pool run, and so the pool is
\* never run on an empty list and no Submit in progress captured an empty
\* job list.
C30_EmptySubmitNoOp ==
    /\ [](pool.called => Len(pool.q) > 0)
    /\ [](submitting => Len(closure.jobs) > 0)
    /\ [][Len(jobs) = 0 =>
             /\ submitting' => submitting
             /\ pool'.called => pool.called
             /\ handles' # handles => handles' = <<>>]_vars

\* An empty job list with Submit idle, after an earlier Submit has run.
C30_Witness ==
    /\ Len(jobs) = 0
    /\ ~submitting
    /\ ~pool.called
    /\ nextId > 0
====
